---- MODULE Spec2Model ----
(***************************************************************************)
(* A model of src/utils.py: the MOCA-interface wrappers Lda and Gmm, the   *)
(* loader read_data, the evaluator auc_by_stratified_cv and cov2corr.      *)
(*                                                                         *)
(* Five specifications share the module:                                   *)
(*   SpecCV     one run of auc_by_stratified_cv, statement by statement    *)
(*   SpecRerun  SpecCV followed by a second run on the same arguments      *)
(*   SpecCls    one classifier object: fit, then get_scores                *)
(*   SpecRead   read_data: the header pass, then one row per step          *)
(*   SpecCorr   cov2corr on a square matrix                                *)
(* The variables of the units a specification does not run stay at their   *)
(* idle values.                                                            *)
(*                                                                         *)
(* Reals are exact rationals <<numerator, denominator>>; floating-point    *)
(* rounding is not modelled.  The library calls (the sklearn estimators,   *)
(* moca's stats.is_rank, stats.roc and cross_validate.stratified_kfold)    *)
(* are the environment: their results are inputs or uninterpreted terms.   *)
(***************************************************************************)
EXTENDS Integers, Sequences, FiniteSets, TLC

(* ------------------------------ bounds -------------------------------- *)
\* largest fold count kfolds
MaxK == 2
\* longest strategy list moca_cls
MaxStrategies == 2
\* integer seeds are 0..MaxSeed
MaxSeed == 1
\* a fold-generation request advances the generator by 1..MaxDraws draws
MaxDraws == 2

VARIABLES
    \* ---- auc_by_stratified_cv: arguments
    kfolds, moca_cls, seed, dataIsRank, drawsPerRequest,
    \* ---- auc_by_stratified_cv: locals and the position in the body
    pc, rng, cl_labels, auc, i, k, cv_generator, fold, fitted,
    \* ---- auc_by_stratified_cv: history (not program state)
    rngsCreated, requests, writes, log, run, prev,
    \* ---- one classifier object (Lda or Gmm), the argument of its last
    \* get_scores call, what that call gave, and the object's stage
    obj, arg, result, cpc,
    \* ---- read_data: the file (header fields, data lines), the pattern,
    \* the locals, the position in the body, and the data lines begun
    header, method_regex, lines, rpc, hdr, n_samples, X, y, sample_idx,
    rowsStarted,
    \* ---- cov2corr: the argument, the value returned, the position
    c, corrOut, kpc

cvvars == <<kfolds, moca_cls, seed, dataIsRank, drawsPerRequest,
            pc, rng, cl_labels, auc, i, k, cv_generator, fold, fitted,
            rngsCreated, requests, writes, log, run, prev>>

clsvars == <<obj, arg, result, cpc>>

rdvars == <<header, method_regex, lines, rpc, hdr, n_samples, X, y,
            sample_idx, rowsStarted>>

corrvars == <<c, corrOut, kpc>>

vars == <<cvvars, clsvars, rdvars, corrvars>>

\* a unit that is not running
IdleCV ==
    /\ kfolds = 0 /\ moca_cls = <<>> /\ seed = <<"None">> /\ dataIsRank = FALSE
    /\ drawsPerRequest = 0 /\ pc = "idle" /\ rng = <<>> /\ cl_labels = <<>>
    /\ auc = <<>> /\ i = 0 /\ k = 0 /\ cv_generator = <<>> /\ fold = <<>>
    /\ fitted = <<>> /\ rngsCreated = 0 /\ requests = <<>> /\ writes = <<>>
    /\ log = <<>> /\ run = 0 /\ prev = <<>>

IdleCls == obj = <<>> /\ arg = <<>> /\ result = <<>> /\ cpc = "idle"

IdleRead ==
    /\ header = <<>> /\ method_regex = {} /\ lines = <<>> /\ rpc = "idle"
    /\ hdr = <<>> /\ n_samples = 0 /\ X = <<>> /\ y = <<>> /\ sample_idx = 0
    /\ rowsStarted = 0

IdleCorr == c = <<>> /\ corrOut = <<>> /\ kpc = "idle"

CVOnly == UNCHANGED <<clsvars, rdvars, corrvars>>

ClsOnly == UNCHANGED <<cvvars, rdvars, corrvars>>

ReadOnly == UNCHANGED <<cvvars, clsvars, corrvars>>

CorrOnly == UNCHANGED <<cvvars, clsvars, rdvars>>

(* ------------------------ auc_by_stratified_cv ------------------------ *)

None == <<"None">>

\* the two wrappers of the source
Kinds == {"Gmm", "Lda"}

\* Lda.is_supervised = True, Gmm.is_supervised = False
is_supervised(kind) == kind = "Lda"

\* the values the seed argument takes: None, or an integer
SeedInputs == {None} \cup {<<"int", s>> : s \in 0..MaxSeed}

\* np.random.default_rng(None) seeds itself from the operating system
Entropy == {"e0", "e1"}

\* GaussianMixture(n_components=2, covariance_type="diag") is built without
\* random_state, so its initialisation draws from numpy's global generator,
\* which no argument of auc_by_stratified_cv sets: each fit sees some draw.
InitDraws == {"g0", "g1"}

\* np.zeros: the value of a cell of auc that was never assigned
Zero == <<"zero">>

Cells(K, n) == (0..(K - 1)) \X (0..(n - 1))

\* the k-th (train, test) pair of the sequence a fold-generation request
\* yields: a function of the data (fixed), of the generator's state when the
\* sequence was drawn, and of k
Fold(gen, kk) == [src |-> gen.src, start |-> gen.start, k |-> kk]

NoFold == [src |-> None, start |-> -1, k |-> -1]

\* a classifier instance before its first fit
Unfitted == [kind |-> "none", train |-> NoFold, labels |-> FALSE, init |-> "-"]

\* cl.get_scores(test["data"]) on a fitted instance, then
\* stats.roc(scores, test["labels"]): the AUC is a function of the fitted
\* parameters and of the test partition
Roc(fit, test) == <<"auc", fit, test>>

NoGenerator == [gen |-> 0, src |-> None, start |-> -1, yielded |-> 0, n |-> 0]

NoRng == [id |-> 0, src |-> None, pos |-> -1]

InitCV ==
    /\ kfolds \in 1..MaxK
    /\ moca_cls \in UNION {[1..n -> Kinds] : n \in 1..MaxStrategies}
    /\ seed \in SeedInputs
    /\ dataIsRank \in BOOLEAN
    /\ drawsPerRequest \in 1..MaxDraws
    /\ pc = "start"
    /\ rng = NoRng
    /\ cl_labels = <<>>
    /\ auc = <<>>
    /\ i = 0
    /\ k = 0
    /\ cv_generator = NoGenerator
    /\ fold = NoFold
    /\ fitted = [j \in 0..(Len(moca_cls) - 1) |-> Unfitted]
    /\ rngsCreated = 0
    /\ requests = <<>>
    /\ writes = <<>>
    /\ log = <<>>
    /\ run = 1
    /\ prev = <<>>
    /\ IdleCls
    /\ IdleRead
    /\ IdleCorr

\* np.random.default_rng(seed=seed)
default_rng(s, id, e) ==
    [id |-> id, src |-> IF s = None THEN <<"entropy", e>> ELSE s, pos |-> 0]

\* lines 258-262: rng, cl_labels, auc
Setup ==
    /\ pc = "start"
    /\ \E e \in Entropy : rng' = default_rng(seed, rngsCreated + 1, e)
    /\ rngsCreated' = rngsCreated + 1
    /\ cl_labels' = <<>>
    /\ auc' = [cell \in Cells(kfolds, Len(moca_cls)) |-> Zero]
    /\ writes' = [cell \in Cells(kfolds, Len(moca_cls)) |-> 0]
    /\ i' = 0
    /\ pc' = "strategy"
    /\ UNCHANGED <<kfolds, moca_cls, seed, dataIsRank, drawsPerRequest, k,
                   cv_generator, fold, fitted, requests, log, run, prev>>
    /\ CVOnly

\* cv.stratified_kfold(data, labels, kfolds, seed=rng): the sequence handed
\* back, tied to the generator object it was given and that object's state
stratified_kfold(r, K) ==
    [gen |-> r.id, src |-> r.src, start |-> r.pos, yielded |-> 0, n |-> K]

\* the generator after the draws of one fold sequence
Advance(r, d) == [r EXCEPT !.pos = r.pos + d]

\* a mutant of RequestFolds: a generator is made from the seed again for
\* every strategy
RequestFoldsReseed ==
    /\ pc = "strategy"
    /\ i < Len(moca_cls)
    /\ cl_labels' = Append(cl_labels, moca_cls[i + 1])
    /\ \E e \in Entropy :
         LET r == default_rng(seed, rngsCreated + 1, e) IN
         /\ cv_generator' = stratified_kfold(r, kfolds)
         /\ rng' = Advance(r, drawsPerRequest)
         /\ requests' = Append(requests,
                               [gen |-> r.id, src |-> r.src, start |-> r.pos,
                                end |-> r.pos + drawsPerRequest, for |-> i])
    /\ rngsCreated' = rngsCreated + 1
    /\ k' = 0
    /\ pc' = "fold"
    /\ UNCHANGED <<kfolds, moca_cls, seed, dataIsRank, drawsPerRequest, auc,
                   i, fold, fitted, writes, log, run, prev>>
    /\ CVOnly

\* lines 264-270: the next strategy, its label, its fold-generation request
RequestFolds ==
    /\ pc = "strategy"
    /\ i < Len(moca_cls)
    /\ cl_labels' = Append(cl_labels, moca_cls[i + 1])
    /\ cv_generator' = stratified_kfold(rng, kfolds)
    /\ rng' = Advance(rng, drawsPerRequest)
    /\ requests' = Append(requests,
                          [gen |-> rng.id, src |-> rng.src, start |-> rng.pos,
                           end |-> rng.pos + drawsPerRequest, for |-> i])
    /\ k' = 0
    /\ pc' = "fold"
    /\ UNCHANGED <<kfolds, moca_cls, seed, dataIsRank, drawsPerRequest, auc,
                   i, fold, fitted, rngsCreated, writes, log, run, prev>>
    /\ CVOnly

\* line 271: the sequence yields its next (train, test) pair
NextFold ==
    /\ pc = "fold"
    /\ cv_generator.yielded < cv_generator.n
    /\ fold' = Fold(cv_generator, cv_generator.yielded)
    /\ cv_generator' = [cv_generator EXCEPT !.yielded = @ + 1]
    /\ pc' = "fit"
    /\ UNCHANGED <<kfolds, moca_cls, seed, dataIsRank, drawsPerRequest, rng,
                   cl_labels, auc, i, k, fitted, rngsCreated, requests,
                   writes, log, run, prev>>
    /\ CVOnly

\* line 271: the sequence is exhausted; on to the next strategy (line 264)
FoldsExhausted ==
    /\ pc = "fold"
    /\ cv_generator.yielded = cv_generator.n
    /\ i' = i + 1
    /\ pc' = "strategy"
    /\ UNCHANGED <<kfolds, moca_cls, seed, dataIsRank, drawsPerRequest, rng,
                   cl_labels, auc, k, cv_generator, fold, fitted, rngsCreated,
                   requests, writes, log, run, prev>>
    /\ CVOnly

\* a mutant of Fit: an instance that was fitted once is not fitted again
FitStale ==
    /\ pc = "fit"
    /\ \E g \in InitDraws :
         /\ fitted' = IF fitted[i] = Unfitted \/ fitted[i].train.src # fold.src
                      THEN [fitted EXCEPT ![i] =
                              [kind |-> moca_cls[i + 1], train |-> fold,
                               labels |-> is_supervised(moca_cls[i + 1]),
                               init |-> IF moca_cls[i + 1] = "Gmm"
                                        THEN g ELSE "-"]]
                      ELSE fitted
         /\ log' = Append(log, [op |-> "fit", i |-> i, k |-> k,
                                fold |-> fitted'[i].train,
                                labels |-> fitted'[i].labels])
    /\ pc' = "score"
    /\ UNCHANGED <<kfolds, moca_cls, seed, dataIsRank, drawsPerRequest, rng,
                   cl_labels, auc, i, k, cv_generator, fold, rngsCreated,
                   requests, writes, run, prev>>
    /\ CVOnly

\* lines 273-276: cl.fit(train["data"], train["labels"]) for a supervised
\* strategy, cl.fit(train["data"]) otherwise
Fit ==
    /\ pc = "fit"
    /\ \E g \in InitDraws :
         fitted' = [fitted EXCEPT ![i] =
                      [kind |-> moca_cls[i + 1], train |-> fold,
                       labels |-> is_supervised(moca_cls[i + 1]),
                       init |-> IF moca_cls[i + 1] = "Gmm" THEN g ELSE "-"]]
    /\ log' = Append(log, [op |-> "fit", i |-> i, k |-> k, fold |-> fold,
                           labels |-> is_supervised(moca_cls[i + 1])])
    /\ pc' = "score"
    /\ UNCHANGED <<kfolds, moca_cls, seed, dataIsRank, drawsPerRequest, rng,
                   cl_labels, auc, i, k, cv_generator, fold, rngsCreated,
                   requests, writes, run, prev>>
    /\ CVOnly

\* a mutant of Score: the fold counter is not advanced
ScoreNoAdvance ==
    /\ pc = "score"
    /\ IF dataIsRank
       THEN /\ auc' = [auc EXCEPT ![<<k, i>>] = Roc(fitted[i], fold)]
            /\ writes' = [writes EXCEPT ![<<k, i>>] = @ + 1]
            /\ log' = Append(log, [op |-> "score", i |-> i, k |-> k,
                                   fold |-> fold, labels |-> TRUE])
            /\ k' = k
            /\ pc' = "fold"
       ELSE /\ pc' = "raised"
            /\ UNCHANGED <<auc, writes, log, k>>
    /\ UNCHANGED <<kfolds, moca_cls, seed, dataIsRank, drawsPerRequest, rng,
                   cl_labels, i, cv_generator, fold, fitted, rngsCreated,
                   requests, run, prev>>
    /\ CVOnly

\* lines 278-280: cl.get_scores(test["data"]) raises ValueError on data that
\* is not rank data, and the error leaves the function; otherwise the AUC of
\* the scores against test["labels"] is stored at auc[k, i] and k advances
Score ==
    /\ pc = "score"
    /\ IF dataIsRank
       THEN /\ auc' = [auc EXCEPT ![<<k, i>>] = Roc(fitted[i], fold)]
            /\ writes' = [writes EXCEPT ![<<k, i>>] = @ + 1]
            /\ log' = Append(log, [op |-> "score", i |-> i, k |-> k,
                                   fold |-> fold, labels |-> TRUE])
            /\ k' = k + 1
            /\ pc' = "fold"
       ELSE /\ pc' = "raised"
            /\ UNCHANGED <<auc, writes, log, k>>
    /\ UNCHANGED <<kfolds, moca_cls, seed, dataIsRank, drawsPerRequest, rng,
                   cl_labels, i, cv_generator, fold, fitted, rngsCreated,
                   requests, run, prev>>
    /\ CVOnly

\* lines 282-284: after the last strategy one more fold-generation request
\* is made, its sequence is never iterated, and (auc, cl_labels) is returned
Return ==
    /\ pc = "strategy"
    /\ i = Len(moca_cls)
    /\ cv_generator' = stratified_kfold(rng, kfolds)
    /\ rng' = Advance(rng, drawsPerRequest)
    /\ requests' = Append(requests,
                          [gen |-> rng.id, src |-> rng.src, start |-> rng.pos,
                           end |-> rng.pos + drawsPerRequest, for |-> -1])
    /\ pc' = "done"
    /\ UNCHANGED <<kfolds, moca_cls, seed, dataIsRank, drawsPerRequest,
                   cl_labels, auc, i, k, fold, fitted, rngsCreated, writes,
                   log, run, prev>>
    /\ CVOnly

\* the caller runs auc_by_stratified_cv again on the same arguments and the
\* same classifier instances; what the first run returned and the folds it
\* saw are kept for comparison
Rerun ==
    /\ pc = "done"
    /\ run = 1
    /\ prev' = [auc |-> auc, cl_labels |-> cl_labels, log |-> log]
    /\ run' = 2
    /\ pc' = "start"
    /\ rng' = NoRng
    /\ cv_generator' = NoGenerator
    /\ fold' = NoFold
    /\ i' = 0
    /\ k' = 0
    /\ rngsCreated' = 0
    /\ requests' = <<>>
    /\ log' = <<>>
    /\ UNCHANGED <<kfolds, moca_cls, seed, dataIsRank, drawsPerRequest,
                   cl_labels, auc, fitted, writes>>
    /\ CVOnly

NextCV ==
    \/ Setup
    \/ RequestFolds
    \/ NextFold
    \/ FoldsExhausted
    \/ Fit
    \/ Score
    \/ Return

SpecCV == InitCV /\ [][NextCV]_vars

NextRerun == NextCV \/ Rerun

SpecRerun == InitCV /\ [][NextRerun]_vars

(* ----------------------------- rationals ------------------------------ *)

RECURSIVE Gcd(_, _)
Gcd(a, b) == IF b = 0 THEN a ELSE Gcd(b, a % b)

Abs(n) == IF n < 0 THEN -n ELSE n

\* a fraction in lowest terms with a positive denominator
Norm(q) ==
    LET g == Gcd(Abs(q[1]), Abs(q[2]))
        sgn == IF q[2] < 0 THEN -1 ELSE 1
    IN <<sgn * (q[1] \div g), sgn * (q[2] \div g)>>

R(n) == <<n, 1>>
RAdd(a, b) == <<a[1] * b[2] + b[1] * a[2], a[2] * b[2]>>
RSub(a, b) == <<a[1] * b[2] - b[1] * a[2], a[2] * b[2]>>
RMul(a, b) == <<a[1] * b[1], a[2] * b[2]>>
RDiv(a, b) == <<a[1] * b[2], a[2] * b[1]>>
RLess(a, b) == a[1] * b[2] < b[1] * a[2]

RECURSIVE SumTo(_, _)
\* f[0] + ... + f[n - 1]
SumTo(f, n) == IF n = 0 THEN 0 ELSE SumTo(f, n - 1) + f[n - 1]

(* ------------------------- class Lda, class Gmm ----------------------- *)

\* largest number of base classifiers M (data.shape[0])
MaxM == 2
\* largest number of samples in a matrix passed to get_scores
MaxSamples == 1
\* largest number of labelled samples passed to Lda.fit
MaxTrain == 2

\* component means, component variances and sample values are drawn from
\* these; the mixture weights are a pair of fractions summing to one
MeanVals == {1, 2}
VarVals == {1, 2}
RankVals == {1, 2}
WeightVals == { <<1, 4>>, <<3, 4>> }

\* what GaussianMixture.fit leaves on the estimator for M features:
\* weights_[c], means_[c, j], covariances_[c, j] (diagonal), c in {0, 1}
GmmEstimates(M) ==
    [weights_ : {[comp \in 0..1 |-> IF comp = 0 THEN w ELSE Norm(RSub(R(1), w))] :
                     w \in WeightVals},
     means_ : [0..1 -> [0..(M - 1) -> MeanVals]],
     covariances_ : [0..1 -> [0..(M - 1) -> VarVals]]]

\* Lda.__init__ and Gmm.__init__: the estimator is built, nothing is fitted
NewLda == [kind |-> "Lda", M |-> None, prevalence |-> None, _lda |-> None]

NewGmm == [kind |-> "Gmm", M |-> None, prevalence |-> None,
           _pos_idx |-> None, _negative_idx |-> None, _gmm |-> None]

\* Lda.fit(data, labels): data has M rows, labels is a sequence of 0/1;
\* the fitted LinearDiscriminantAnalysis is a function of what it was given
LdaFit(self, M, labels) ==
    [self EXCEPT !.M = M,
                 !.prevalence =
                     Norm(<<SumTo([n \in 0..(Len(labels) - 1) |-> labels[n + 1]],
                                  Len(labels)),
                            Len(labels)>>),
                 !._lda = <<"fitted", M, labels>>]

\* a mutant of GmmFit: the switch also happens on a tie
GmmFitTie(self, M, est) ==
    LET delta == [j \in 0..(M - 1) |->
                    IF est.means_[0][j] - est.means_[1][j] > 0 THEN 1 ELSE 0]
        switch == ~RLess(<<SumTo(delta, M), 1>>, <<M, 2>>)
    IN [self EXCEPT !.M = M,
                    !._gmm = est,
                    !._pos_idx = IF switch THEN 0 ELSE 1,
                    !._negative_idx = IF switch THEN 1 ELSE 0,
                    !.prevalence = est.weights_[IF switch THEN 0 ELSE 1]]

\* Gmm.fit(data): est is what self._gmm.fit(data.T) estimated.  Component 1
\* is taken as positive; delta = means_[0, :] - means_[1, :], one where
\* positive; if M/2 < sum(delta) the indices are switched
GmmFit(self, M, est) ==
    LET delta == [j \in 0..(M - 1) |->
                    IF est.means_[0][j] - est.means_[1][j] > 0 THEN 1 ELSE 0]
        switch == RLess(<<M, 2>>, <<SumTo(delta, M), 1>>)
    IN [self EXCEPT !.M = M,
                    !._gmm = est,
                    !._pos_idx = IF switch THEN 0 ELSE 1,
                    !._negative_idx = IF switch THEN 1 ELSE 0,
                    !.prevalence = est.weights_[IF switch THEN 0 ELSE 1]]

\* the matrices passed to get_scores: x[j][n] is feature j of sample n, and
\* rank is what stats.is_rank(data) answers for it.  Rank data holds values
\* of RankVals; of a matrix that is not rank data get_scores reads nothing
\* but is_rank's answer, so one such matrix (all zero) stands for each shape
DataInputs(M) ==
    UNION {[x : [0..(M - 1) -> [0..(n - 1) -> RankVals]], rank : {TRUE}]
           \cup [x : {[j \in 0..(M - 1) |-> [s \in 0..(n - 1) |-> 0]]},
                 rank : {FALSE}]
              : n \in 1..MaxSamples}

Rows(data) == Cardinality(DOMAIN data.x)
Cols(data) == Cardinality(DOMAIN data.x[0])

ValueError == [raised |-> "ValueError"]

\* lines 101-103: the quadratic term of feature j for the value v
GmmQuadratic(self, j, v) ==
    RMul(RSub(RDiv(R(1), R(self._gmm.covariances_[self._pos_idx][j])),
              RDiv(R(1), R(self._gmm.covariances_[self._negative_idx][j]))),
         R(v * v))

\* a mutant of GmmLinear: the two components change places
GmmLinearSwapped(self, j, v) ==
    RMul(RMul(R(2),
              RSub(RDiv(R(self._gmm.means_[self._pos_idx][j]),
                        R(self._gmm.covariances_[self._pos_idx][j])),
                   RDiv(R(self._gmm.means_[self._negative_idx][j]),
                        R(self._gmm.covariances_[self._negative_idx][j])))),
         R(v))

\* lines 106-110: the linear term of feature j for the value v
GmmLinear(self, j, v) ==
    RMul(RMul(R(2),
              RSub(RDiv(R(self._gmm.means_[self._negative_idx][j]),
                        R(self._gmm.covariances_[self._negative_idx][j])),
                   RDiv(R(self._gmm.means_[self._pos_idx][j]),
                        R(self._gmm.covariances_[self._pos_idx][j])))),
         R(v))

RECURSIVE GmmSampleScore(_, _, _, _)
\* lines 98-110: s[n] after the features 0..m-1 were added
GmmSampleScore(self, data, n, m) ==
    IF m = 0 THEN R(0)
    ELSE RAdd(RAdd(GmmSampleScore(self, data, n, m - 1),
                   GmmQuadratic(self, m - 1, data.x[m - 1][n])),
              GmmLinear(self, m - 1, data.x[m - 1][n]))

\* a mutant of GmmGetScores: the rank check is missing
GmmGetScoresUnchecked(self, data) ==
    [scores |-> [n \in 0..(Cols(data) - 1) |->
                    Norm(GmmSampleScore(self, data, n, Rows(data)))]]

\* Gmm.get_scores(data): ValueError unless stats.is_rank(data); otherwise
\* one score per sample (column)
GmmGetScores(self, data) ==
    IF ~data.rank
    THEN ValueError
    ELSE [scores |-> [n \in 0..(Cols(data) - 1) |->
                         Norm(GmmSampleScore(self, data, n, Rows(data)))]]

\* Lda.get_scores(data): ValueError unless stats.is_rank(data); otherwise
\* self._lda.decision_function(data.T), a function of the fitted estimator
\* and of the data
LdaGetScores(self, data) ==
    IF ~data.rank
    THEN ValueError
    ELSE [scores |-> <<"decision_function", self._lda, data.x>>]

InitCls ==
    /\ obj \in {NewLda, NewGmm}
    /\ arg = <<>>
    /\ result = <<>>
    /\ cpc = "new"
    /\ IdleCV
    /\ IdleRead
    /\ IdleCorr

\* a call of Gmm.fit
FitGmm ==
    /\ cpc = "new"
    /\ obj.kind = "Gmm"
    /\ \E M \in 1..MaxM : \E est \in GmmEstimates(M) : obj' = GmmFit(obj, M, est)
    /\ cpc' = "fitted"
    /\ UNCHANGED <<arg, result>>
    /\ ClsOnly

\* a call of Lda.fit
FitLda ==
    /\ cpc = "new"
    /\ obj.kind = "Lda"
    /\ \E M \in 1..MaxM : \E n \in 1..MaxTrain : \E labels \in [1..n -> 0..1] :
         obj' = LdaFit(obj, M, labels)
    /\ cpc' = "fitted"
    /\ UNCHANGED <<arg, result>>
    /\ ClsOnly

\* a call of get_scores on the fitted object; neither method assigns to self
GetScores ==
    /\ cpc = "fitted"
    /\ \E data \in DataInputs(obj.M) :
         /\ arg' = data
         /\ result' = IF obj.kind = "Gmm" THEN GmmGetScores(obj, data)
                      ELSE LdaGetScores(obj, data)
    /\ obj' = obj
    /\ cpc' = "scored"
    /\ ClsOnly

NextCls ==
    \/ FitGmm
    \/ FitLda
    \/ GetScores

SpecCls == InitCls /\ [][NextCls]_vars

(* ------------------------------ read_data ----------------------------- *)

\* most columns in the header line
MaxCols == 3
\* most data lines in the file
MaxRows == 1

\* header fields; "class" is the field re.match("^class$", field) accepts
Fields == {"class", "id", "m1", "m2"}

\* method_regex, given by the set of fields re.match(method_regex, field)
\* accepts
MethodRegexes == { {"m1", "m2"}, {"m1", "class"} }

\* the cells of a data line
Tokens == {"1", "", ".", "NaN", "x"}

\* the cells the default datum_regex accepts: every part of
\* ^[+-]?[0-9]*\.?[0-9]*E?e?[+-]?[0-9]*$ is optional
DatumMatches == {"1", "", "."}

\* the cells np.float16 and np.float64 convert; the others raise ValueError
Floats == {"1"}

Range(q) == {q[n] : n \in 1..Len(q)}

HeaderStart ==
    [cls_names |-> <<>>, score_col_idx |-> <<>>, label_col_idx |-> <<>>,
     raised |-> ""]

RECURSIVE DecomposeHeaderFields(_, _, _)
\* lines 169-181: the loop over the header's fields, after the fields
\* 0..n-1.  label_col_idx is <<>> for None and <<j>> for the index j
DecomposeHeaderFields(tline, regex, n) ==
    IF n = 0 THEN HeaderStart
    ELSE LET st == DecomposeHeaderFields(tline, regex, n - 1)
             field == tline[n]
         IN IF st.raised # "" THEN st
            ELSE IF field = "class"
                 THEN [st EXCEPT !.label_col_idx = <<n - 1>>]
            ELSE IF field \in Range(st.cls_names)
                 THEN [st EXCEPT !.raised = "Duplicate team names"]
            ELSE IF field \in regex
                 THEN [st EXCEPT !.cls_names = Append(@, field),
                                 !.score_col_idx = Append(@, n - 1)]
            ELSE st

\* lines 165-185: the header line
DecomposeHeader(tline, regex) ==
    LET st == DecomposeHeaderFields(tline, regex, Len(tline))
    IN IF st.raised # "" THEN st
       ELSE IF Len(st.score_col_idx) = 0 \/ st.label_col_idx = <<>>
            THEN [st EXCEPT !.raised = "Could not decompose header"]
       ELSE st

Nan == <<"nan">>
Float(v) == <<"float", v>>

RECURSIVE ParseCells(_, _, _)
\* lines 212-225: the row's score cells, after the classifiers 0..m-1:
\* the values for X[0..m-1, sample_idx], or the error raised
ParseCells(tline, cols, m) ==
    IF m = 0 THEN [vals |-> <<>>, raised |-> ""]
    ELSE LET st == ParseCells(tline, cols, m - 1)
             val == tline[cols[m] + 1]
         IN IF st.raised # "" THEN st
            ELSE IF val = "" THEN [st EXCEPT !.vals = Append(@, Nan)]
            ELSE IF val \in DatumMatches
                 THEN IF val \in Floats
                      THEN [st EXCEPT !.vals = Append(@, Float(val))]
                      ELSE [st EXCEPT !.raised = "could not convert string to float"]
            ELSE IF val = "NaN" THEN [st EXCEPT !.vals = Append(@, Nan)]
            ELSE [st EXCEPT !.raised = "Error while parsing file"]

InitRead ==
    /\ header \in UNION {[1..n -> Fields] : n \in 1..MaxCols}
    /\ method_regex \in MethodRegexes
    /\ lines \in UNION {[1..r -> [1..Len(header) -> Tokens]] : r \in 0..MaxRows}
    /\ rpc = "open"
    /\ hdr = HeaderStart
    /\ n_samples = 0
    /\ X = <<>>
    /\ y = <<>>
    /\ sample_idx = 0
    /\ rowsStarted = 0
    /\ IdleCV
    /\ IdleCls
    /\ IdleCorr

\* lines 156-196: the first pass decomposes the header and counts the data
\* lines; a header error leaves read_data there
ReadHeader ==
    /\ rpc = "open"
    /\ hdr' = DecomposeHeader(header, method_regex)
    /\ IF hdr'.raised # ""
       THEN /\ rpc' = "raised"
            /\ UNCHANGED <<n_samples, X, y, sample_idx>>
       ELSE /\ rpc' = "rows"
            /\ n_samples' = Len(lines)
            /\ X' = [j \in 0..(Len(hdr'.score_col_idx) - 1) |->
                        [n \in 0..(Len(lines) - 1) |-> Float("0")]]
            /\ y' = [n \in 0..(Len(lines) - 1) |-> Float("0")]
            /\ sample_idx' = 0
    /\ UNCHANGED <<header, method_regex, lines, rowsStarted>>
    /\ ReadOnly

\* lines 197-227: one data line
ParseRow ==
    /\ rpc = "rows"
    /\ sample_idx < n_samples
    /\ rowsStarted' = rowsStarted + 1
    /\ LET tline == lines[sample_idx + 1]
           label == tline[hdr.label_col_idx[1] + 1]
           cells == ParseCells(tline, hdr.score_col_idx, Len(hdr.score_col_idx))
       IN IF label \notin DatumMatches
          THEN /\ rpc' = "raised"
               /\ hdr' = [hdr EXCEPT !.raised = "Incorrect sample label"]
               /\ UNCHANGED <<X, y, sample_idx>>
          ELSE IF label \notin Floats
          THEN /\ rpc' = "raised"
               /\ hdr' = [hdr EXCEPT !.raised = "could not convert string to float"]
               /\ UNCHANGED <<X, y, sample_idx>>
          ELSE IF cells.raised # ""
          THEN /\ rpc' = "raised"
               /\ hdr' = [hdr EXCEPT !.raised = cells.raised]
               /\ y' = [y EXCEPT ![sample_idx] = Float(label)]
               /\ X' = [j \in DOMAIN X |->
                           IF j < Len(cells.vals)
                           THEN [X[j] EXCEPT ![sample_idx] = cells.vals[j + 1]]
                           ELSE X[j]]
               /\ UNCHANGED sample_idx
          ELSE /\ y' = [y EXCEPT ![sample_idx] = Float(label)]
               /\ X' = [j \in DOMAIN X |->
                           [X[j] EXCEPT ![sample_idx] = cells.vals[j + 1]]]
               /\ sample_idx' = sample_idx + 1
               /\ UNCHANGED <<rpc, hdr>>
    /\ UNCHANGED <<header, method_regex, lines, n_samples>>
    /\ ReadOnly

\* line 229: every data line is parsed; X, y, cls_names are returned
ReadReturn ==
    /\ rpc = "rows"
    /\ sample_idx = n_samples
    /\ rpc' = "returned"
    /\ UNCHANGED <<header, method_regex, lines, hdr, n_samples, X, y,
                   sample_idx, rowsStarted>>
    /\ ReadOnly

NextRead ==
    \/ ReadHeader
    \/ ParseRow
    \/ ReadReturn

SpecRead == InitRead /\ [][NextRead]_vars

(* ------------------------------ cov2corr ------------------------------ *)

\* largest matrix size n
MaxN == 3

\* the diagonal entries (variances, with integer square roots of every
\* product of two) and the off-diagonal entries (covariances)
DiagVals == {1, 4}
OffDiagVals == {-2, -1, 0, 1, 2}

\* np.sqrt on the perfect squares DiagVals gives
Sqrt(m) == CHOOSE r \in 0..m : r * r = m

\* the symmetric n x n matrices with a positive diagonal and
\* c[a][b]^2 <= c[a][a] * c[b][b], as covariances have; c[a][b], 0-based
CovInputs(n) ==
    LET above == {p \in (0..(n - 1)) \X (0..(n - 1)) : p[1] < p[2]}
        all == {[a \in 0..(n - 1) |->
                   [b \in 0..(n - 1) |->
                      IF a = b THEN d[a]
                      ELSE IF a < b THEN o[<<a, b>>] ELSE o[<<b, a>>]]] :
                   d \in [0..(n - 1) -> DiagVals],
                   o \in [above -> OffDiagVals]}
    IN {m \in all :
          \A a, b \in 0..(n - 1) :
             a # b => m[a][b] * m[a][b] <= m[a][a] * m[b][b]}

\* lines 288-291: corr after the loops: row a, columns 1..n-1 are assigned
CorrLoops(m, n) ==
    [a \in 0..(n - 1) |->
        [b \in 0..(n - 1) |->
            IF b >= 1
            THEN RDiv(R(m[a][b]), R(Sqrt(m[a][a] * m[b][b])))
            ELSE R(0)]]

\* cov2corr(c): corr + corr.T + np.eye(n)
cov2corr(m) ==
    LET n == Cardinality(DOMAIN m)
        corr == CorrLoops(m, n)
    IN [a \in 0..(n - 1) |->
          [b \in 0..(n - 1) |->
              Norm(RAdd(RAdd(corr[a][b], corr[b][a]),
                        R(IF a = b THEN 1 ELSE 0)))]]

InitCorr ==
    /\ c \in UNION {CovInputs(n) : n \in 1..MaxN}
    /\ corrOut = <<>>
    /\ kpc = "call"
    /\ IdleCV
    /\ IdleCls
    /\ IdleRead

\* a call of cov2corr
Cov2Corr ==
    /\ kpc = "call"
    /\ corrOut' = cov2corr(c)
    /\ kpc' = "returned"
    /\ UNCHANGED c
    /\ CorrOnly

NextCorr == Cov2Corr

SpecCorr == InitCorr /\ [][NextCorr]_vars

(* ------------------- claims on auc_by_stratified_cv ------------------- *)

\* C1: a run that returns has assigned every cell (k, i) of the
\* kfolds x len(moca_cls) matrix exactly once, every assignment fell inside
\* the matrix, and no cell still holds the value np.zeros gave it.
C1_EachCellWrittenOnce ==
    pc = "done" =>
        /\ DOMAIN auc = Cells(kfolds, Len(moca_cls))
        /\ \A cell \in Cells(kfolds, Len(moca_cls)) :
             writes[cell] = 1 /\ auc[cell] # Zero
        /\ \A p \in 1..Len(log) :
             log[p].op = "score" =>
                 <<log[p].k, log[p].i>> \in Cells(kfolds, Len(moca_cls))
        /\ Cardinality({p \in 1..Len(log) : log[p].op = "score"})
               = kfolds * Len(moca_cls)

C1_Witness ==
    /\ pc = "done"
    /\ kfolds = MaxK
    /\ Len(moca_cls) = MaxStrategies
    /\ \A cell \in Cells(kfolds, Len(moca_cls)) : writes[cell] = 1

\* C6: the calls happen in the order (strategy 0, folds 0..K-1), (strategy 1,
\* folds 0..K-1), ...; each get_scores on a fold's test partition directly
\* follows a fit of the same strategy on the same fold's training partition,
\* with the labels passed exactly when the strategy is supervised; the value
\* at auc[k, i] is the AUC of strategy i fitted on fold k of the sequence
\* requested for strategy i, scored on that fold's test partition.
C6_FitThenScoreInOrder ==
    /\ \A p \in 1..Len(log) :
         /\ log[p].op = IF p % 2 = 1 THEN "fit" ELSE "score"
         /\ log[p].i = ((p - 1) \div 2) \div kfolds
         /\ log[p].k = ((p - 1) \div 2) % kfolds
         /\ log[p].op = "score" =>
              /\ log[p - 1].fold = log[p].fold
              /\ log[p - 1].labels = is_supervised(moca_cls[log[p].i + 1])
              /\ log[p].fold.k = log[p].k
              /\ log[p].fold.start = requests[log[p].i + 1].start
              /\ auc[<<log[p].k, log[p].i>>] =
                   Roc([kind |-> moca_cls[log[p].i + 1],
                        train |-> log[p].fold,
                        labels |-> is_supervised(moca_cls[log[p].i + 1]),
                        init |-> auc[<<log[p].k, log[p].i>>][2].init],
                       log[p].fold)
    /\ pc = "score" =>
         /\ fitted[i].train = fold
         /\ fitted[i].kind = moca_cls[i + 1]
         /\ fitted[i].labels = is_supervised(moca_cls[i + 1])

C6_Witness ==
    /\ pc = "done"
    /\ kfolds = MaxK
    /\ moca_cls = <<"Gmm", "Lda">>
    /\ Len(log) = 2 * kfolds * Len(moca_cls)

\* C7: one generator is made from the seed; every fold-generation request is
\* handed that generator; the first request finds it as default_rng left it
\* and every later request finds it where the previous request's draws left
\* it, so no two requests start from the same generator state.
C7_OneGeneratorThreaded ==
    /\ rngsCreated = IF pc = "start" THEN 0 ELSE 1
    /\ pc # "start" =>
         /\ rng.id = 1
         /\ seed # None => rng.src = seed
    /\ \A j \in 1..Len(requests) :
         /\ requests[j].gen = rng.id
         /\ requests[j].src = rng.src
         /\ requests[j].start = IF j = 1 THEN 0 ELSE requests[j - 1].end
         /\ requests[j].end > requests[j].start
    /\ \A a, b \in 1..Len(requests) :
         a # b => requests[a].start # requests[b].start

C7_Witness ==
    /\ pc = "done"
    /\ Len(moca_cls) = MaxStrategies
    /\ requests[2].start = requests[1].end
    /\ requests[2].for = 1

\* C9: a run that returns has made exactly len(moca_cls) fold-generation
\* requests, the j-th for strategy j, and none that no strategy consumed.
C9_OneRequestPerStrategy ==
    pc = "done" =>
        /\ Len(requests) = Len(moca_cls)
        /\ \A j \in 1..Len(requests) : requests[j].for = j - 1

\* the folds a run's log shows, in order
FoldsOf(l) == [p \in 1..Len(l) |-> l[p].fold]

\* C2: two runs on the same integer seed, data, labels and strategy list
\* see the same folds and return the same AUC matrix.
C2_Deterministic ==
    (pc = "done" /\ run = 2 /\ seed # None) =>
        /\ FoldsOf(log) = FoldsOf(prev.log)
        /\ auc = prev.auc

(* ------------------------ claims on Lda and Gmm ----------------------- *)

\* C3: a get_scores call on a fitted Lda or Gmm leaves every attribute of
\* the object as it was; on data that is not rank data it ends in ValueError
\* and returns no scores; on rank data it returns scores and does not end in
\* that error.
C3_GetScoresRankCheck ==
    [][(cpc = "fitted" /\ cpc' = "scored") =>
          /\ obj' = obj
          /\ ~arg'.rank => (result' = ValueError /\ "scores" \notin DOMAIN result')
          /\ arg'.rank => (result' # ValueError /\ "scores" \in DOMAIN result'
                           /\ "raised" \notin DOMAIN result')]_vars

C3_Witness ==
    /\ cpc = "scored"
    /\ obj.kind = "Gmm"
    /\ ~arg.rank
    /\ result = ValueError

\* the features on which component 0 has the larger mean
PositiveDeltas(o) ==
    {j \in 0..(o.M - 1) : o._gmm.means_[0][j] - o._gmm.means_[1][j] > 0}

\* C4: after Gmm.fit the positive component is component 0 if more than half
\* of the M features have a larger mean in component 0 than in component 1,
\* and component 1 otherwise (a tie included); the negative component is the
\* other one; prevalence is the weight of the positive component.
C4_LabelResolution ==
    (cpc \in {"fitted", "scored"} /\ obj.kind = "Gmm") =>
        /\ obj._pos_idx = IF 2 * Cardinality(PositiveDeltas(obj)) > obj.M
                          THEN 0 ELSE 1
        /\ obj._negative_idx = 1 - obj._pos_idx
        /\ obj._pos_idx # obj._negative_idx
        /\ obj.prevalence = obj._gmm.weights_[obj._pos_idx]

\* the tie: exactly half of the features have a positive delta
C4_Witness ==
    /\ cpc = "fitted"
    /\ obj.kind = "Gmm"
    /\ obj.M = 2
    /\ Cardinality(PositiveDeltas(obj)) = 1
    /\ obj._pos_idx = 1
    /\ obj.prevalence = obj._gmm.weights_[1]

RECURSIVE ProdTo(_, _)
\* f[0] * ... * f[n - 1]
ProdTo(f, n) == IF n = 0 THEN 1 ELSE ProdTo(f, n - 1) * f[n - 1]

VarPos(o, j) == o._gmm.covariances_[o._pos_idx][j]
VarNeg(o, j) == o._gmm.covariances_[o._negative_idx][j]
MeanPos(o, j) == o._gmm.means_[o._pos_idx][j]
MeanNeg(o, j) == o._gmm.means_[o._negative_idx][j]

\* the product over the features of var_pos[j] * var_neg[j]: a common
\* denominator of every term of a score
CommonDen(o) == ProdTo([j \in 0..(o.M - 1) |-> VarPos(o, j) * VarNeg(o, j)], o.M)

\* den times the sum over j of
\*   q * (1/var_neg[j] - 1/var_pos[j]) * x[j]^2
\*   + 2 * (mean_neg[j]/var_neg[j] - mean_pos[j]/var_pos[j]) * x[j]
\* for sample n, den being CommonDen; q = 1 is the quadratic coefficient as
\* the specification writes it, q = -1 is its negation
ScaledScore(o, data, n, q, den) ==
    SumTo([j \in 0..(o.M - 1) |->
             (q * (VarPos(o, j) - VarNeg(o, j)) * data.x[j][n] * data.x[j][n]
              + 2 * (MeanNeg(o, j) * VarPos(o, j) - MeanPos(o, j) * VarNeg(o, j))
                  * data.x[j][n])
             * (den \div (VarPos(o, j) * VarNeg(o, j)))],
          o.M)

ScoresAre(q) ==
    (cpc = "scored" /\ obj.kind = "Gmm" /\ arg.rank) =>
        LET den == CommonDen(obj) IN
        \A n \in 0..(Cols(arg) - 1) :
            result.scores[n][1] * den
                = result.scores[n][2] * ScaledScore(obj, arg, n, q, den)

ClassifierColumns(tline, regex) ==
    {n \in 1..Len(tline) : tline[n] # "class" /\ tline[n] \in regex}

ClassColumns(tline) == {n \in 1..Len(tline) : tline[n] = "class"}

\* C8: read_data ends in an error on the header, before any data line is
\* parsed, exactly for the headers in which two classifier columns have the
\* same name, or no column is a classifier column, or the number of class
\* columns is not one; for every other header it goes on to the data lines.
C8_HeaderRejected ==
    rpc # "open" =>
        LET bad == \/ \E a, b \in ClassifierColumns(header, method_regex) :
                        a # b /\ header[a] = header[b]
                   \/ ClassifierColumns(header, method_regex) = {}
                   \/ Cardinality(ClassColumns(header)) # 1
        IN IF bad
           THEN rpc = "raised" /\ rowsStarted = 0
           ELSE rowsStarted > 0 \/ rpc \in {"rows", "returned"}

(* -------------------------- claims on cov2corr ------------------------ *)

\* C10: cov2corr(c) is symmetric, every diagonal entry is 1, every
\* off-diagonal entry (a, b) is c[a,b] / sqrt(c[a,a] * c[b,b]), and a
\* symmetric c with unit diagonal is returned unchanged.
C10_Correlation ==
    kpc = "returned" =>
        LET n == Cardinality(DOMAIN c) IN
        /\ \A a, b \in 0..(n - 1) :
             /\ corrOut[a][b] = corrOut[b][a]
             /\ a = b => corrOut[a][b] = R(1)
             /\ a # b => corrOut[a][b][1] * Sqrt(c[a][a] * c[b][b])
                             = corrOut[a][b][2] * c[a][b]
        /\ (\A a \in 0..(n - 1) : c[a][a] = 1) =>
             \A a, b \in 0..(n - 1) : corrOut[a][b] = R(c[a][b])

====
